---- MODULE Spec2Model ----
(***************************************************************************)
(* roentgenium: a quick-launcher.  cli.main loads the entry catalog        *)
(* (entries.create_all_entries), builds the SelectableLabelApp widget      *)
(* (gui.py) and then dispatches text-change and key-press events to it.    *)
(* Names, queries and commands are sequences of one-character strings.     *)
(***************************************************************************)
EXTENDS Integers, Sequences, FiniteSets, TLC

VARIABLES pc, parsed_data, CONFIG, ENTRIES, INPUT_FIELD, entries,
          name_to_entry, current_index, window_start, labels, text,
          launched, err, last_op, downs

vars == <<pc, parsed_data, CONFIG, ENTRIES, INPUT_FIELD, entries,
          name_to_entry, current_index, window_start, labels, text,
          launched, err, last_op, downs>>

\* ------------------------------------------------------------------------
\* Bounds of the model
\* ------------------------------------------------------------------------
MaxGroups == 2
MaxVisible == 3
MaxWindowStart == 1
MaxDelta == 2
MaxFuzzyLimit == 1
MaxDowns == 4

\* ------------------------------------------------------------------------
\* Python helpers
\* ------------------------------------------------------------------------
Min2(a, b) == IF a <= b THEN a ELSE b

Max2(a, b) == IF a >= b THEN a ELSE b

\* str.lower() on the characters the model uses
LowerChar(c) ==
  CASE c = "A" -> "a"
    [] c = "B" -> "b"
    [] c = "L" -> "l"
    [] OTHER -> c

Lower(s) == [i \in 1..Len(s) |-> LowerChar(s[i])]

\* str.startswith
StartsWith(s, p) ==
  /\ Len(p) <= Len(s)
  /\ \A i \in 1..Len(p) : s[i] = p[i]

\* x in list
InList(x, l) == \E i \in 1..Len(l) : l[i] = x

\* sequence slice s[a..b] (1-based, inclusive; empty when a > b)
Slice(s, a, b) == [i \in 1..(b - a + 1) |-> s[a + i - 1]]

\* ------------------------------------------------------------------------
\* rapidfuzz: fuzz.partial_ratio and process.extract as called by gui.py
\* ------------------------------------------------------------------------
\* length of a longest common subsequence (the Indel similarity is 2*LCS)
RECURSIVE LCS(_, _)
LCS(s, t) ==
  IF s = <<>> \/ t = <<>> THEN 0
  ELSE IF Head(s) = Head(t) THEN 1 + LCS(Tail(s), Tail(t))
  ELSE Max2(LCS(Tail(s), t), LCS(s, Tail(t)))

\* fuzz.ratio: normalized Indel similarity, 0..100; kept as an exact integer
\* by scaling with 60 (divisible by every length sum up to 6)
Ratio(s, t) ==
  IF Len(s) + Len(t) = 0 THEN 100 * 60
  ELSE (100 * 60 * 2 * LCS(s, t)) \div (Len(s) + Len(t))

RECURSIVE SetMax(_)
SetMax(S) ==
  LET x == CHOOSE y \in S : TRUE
  IN IF S = {x} THEN x ELSE Max2(x, SetMax(S \ {x}))

\* fuzz.partial_ratio: best ratio of the shorter string against the windows
\* of the longer one (full-length windows, shorter prefixes and suffixes)
PartialRatio(s1, s2) ==
  LET short == IF Len(s1) <= Len(s2) THEN s1 ELSE s2
      long  == IF Len(s1) <= Len(s2) THEN s2 ELSE s1
      m == Len(short)
      n == Len(long)
      spans == {ab \in (1..n) \X (1..n) :
                  /\ ab[1] <= ab[2]
                  /\ \/ ab[2] - ab[1] + 1 = m
                     \/ ab[1] = 1 /\ ab[2] < m
                     \/ ab[2] = n /\ ab[2] - ab[1] + 1 < m}
      usable == {Slice(long, ab[1], ab[2]) : ab \in spans}
  IN IF m = 0 /\ n = 0 THEN 100 * 60
     ELSE IF m = 0 THEN 0
     ELSE SetMax({Ratio(short, w) : w \in usable})

\* process.extract that ignores its limit
Extract_no_limit(query, choices, limit) ==
  LET n == Len(choices)
      score == [i \in 1..n |-> PartialRatio(query, choices[i])]
      rank(i) == Cardinality({j \in 1..n :
                    \/ score[j] > score[i]
                    \/ score[j] = score[i] /\ j < i})
  IN [r \in 1..n |->
        LET i == CHOOSE j \in 1..n : rank(j) = r - 1
        IN <<choices[i], score[i], i - 1>>]

\* process.extract(query, choices, scorer=fuzz.partial_ratio, limit=limit):
\* the best `limit` choices by descending score, equal scores in list order;
\* each result is <<choice, score, index>>
Extract(query, choices, limit) ==
  LET n == Len(choices)
      score == [i \in 1..n |-> PartialRatio(query, choices[i])]
      rank(i) == Cardinality({j \in 1..n :
                    \/ score[j] > score[i]
                    \/ score[j] = score[i] /\ j < i})
      k == Min2(Max2(limit, 0), n)
  IN [r \in 1..k |->
        LET i == CHOOSE j \in 1..n : rank(j) = r - 1
        IN <<choices[i], score[i], i - 1>>]

\* ------------------------------------------------------------------------
\* entries.py
\* ------------------------------------------------------------------------
None == [is_none |-> TRUE, name |-> "", command |-> "", display_text |-> "",
         group |-> ""]

Whitespace == {" ", "\n"}

RECURSIVE LStrip(_)
LStrip(s) ==
  IF s # <<>> /\ Head(s) \in Whitespace THEN LStrip(Tail(s)) ELSE s

RECURSIVE RStrip(_)
RStrip(s) ==
  IF s # <<>> /\ s[Len(s)] \in Whitespace
  THEN RStrip(SubSeq(s, 1, Len(s) - 1)) ELSE s

\* str.strip()
Strip(s) == RStrip(LStrip(s))

\* str.split("\n"): always at least one piece
RECURSIVE Split(_, _)
Split(s, cur) ==
  IF s = <<>> THEN <<cur>>
  ELSE IF Head(s) = "\n" THEN <<cur>> \o Split(Tail(s), <<>>)
  ELSE Split(Tail(s), Append(cur, Head(s)))

\* Group.run_command: the stdout of the shell command, stripped and split
run_command(stdout) == Split(Strip(stdout), <<>>)

\* str.format(name=...) on a template whose placeholder is the token "{name}"
RECURSIVE Format(_, _)
Format(template, name) ==
  IF template = <<>> THEN <<>>
  ELSE (IF Head(template) = "{name}" THEN name ELSE <<Head(template)>>)
         \o Format(Tail(template), name)

\* Entry.__init__
Entry(entry_name, entry_command, group) ==
  [name |-> entry_name, command |-> Format(entry_command, entry_name),
   group |-> group]

\* InputField.__init__: subscripting the default [] of a group that declares
\* no input field raises TypeError
InputField(input_field, group) ==
  IF ~input_field.present THEN [exc |-> "TypeError", value |-> None]
  ELSE [exc |-> "none",
        value |-> [is_none |-> FALSE, name |-> input_field.name,
                   command |-> input_field.command,
                   display_text |-> input_field.display_text,
                   group |-> group]]

\* Group.add_entries.get_entry_items
get_entry_items(entry) ==
  IF entry.name_is_command
  THEN [exc |-> "none", items |-> run_command(entry.stdout)]
  ELSE IF entry.name.kind = "list"
  THEN [exc |-> "none", items |-> entry.name.list]
  ELSE IF entry.name.kind = "str"
  THEN [exc |-> "none", items |-> <<entry.name.str>>]
  ELSE [exc |-> "ValueError", items |-> <<>>]

\* Group.add_entries: the Entry objects one declaration contributes
add_entries(group, entry) ==
  LET got == get_entry_items(entry)
  IN [exc |-> got.exc,
      entries |-> [i \in 1..Len(got.items) |->
                     Entry(got.items[i], entry.command, group)]]

\* the body of the loop of create_all_entries for one group
RECURSIVE GroupEntries(_, _, _)
GroupEntries(group, decls, acc) ==
  IF decls = <<>> THEN [exc |-> "none", entries |-> acc]
  ELSE LET r == add_entries(group, Head(decls))
       IN IF r.exc # "none" THEN [exc |-> r.exc, entries |-> acc]
          ELSE GroupEntries(group, Tail(decls), acc \o r.entries)

\* create_all_entries: (all_entries, input_field), or the exception raised
RECURSIVE CreateLoop(_, _, _)
CreateLoop(groups, all_entries, input_field) ==
  IF groups = <<>>
  THEN [exc |-> "none", all_entries |-> all_entries,
        input_field |-> input_field]
  ELSE LET group == Head(groups)
           f == InputField(group.input_field, group.name)
           \* a single entry table is wrapped into a one-element list
           decls == IF group.entry.is_list THEN group.entry.items
                    ELSE <<group.entry.items[1]>>
           e == GroupEntries(group.name, decls, <<>>)
       IN IF f.exc # "none"
          THEN [exc |-> f.exc, all_entries |-> <<>>, input_field |-> None]
          ELSE IF e.exc # "none"
          THEN [exc |-> e.exc, all_entries |-> <<>>, input_field |-> None]
          ELSE CreateLoop(Tail(groups), all_entries \o e.entries, f.value)

create_all_entries(data) == CreateLoop(data, <<>>, None)

\* ------------------------------------------------------------------------
\* gui.py: SelectableLabelApp
\* ------------------------------------------------------------------------
\* list[i] with Python's negative indices; IndexError outside -len..len-1
PyIndexOK(l, i) == -Len(l) <= i /\ i < Len(l)

PyIndex(l, i) == IF i >= 0 THEN l[i + 1] ELSE l[Len(l) + i + 1]

\* {entry.name: entry for entry in entries}: keys in first-insertion order,
\* a repeated name keeps its position and takes the later entry
RECURSIVE DictInsertAll(_, _)
DictInsertAll(d, es) ==
  IF es = <<>> THEN d
  ELSE LET e == Head(es)
           d2 == IF \E i \in 1..Len(d) : d[i].key = e.name
                 THEN [i \in 1..Len(d) |->
                         IF d[i].key = e.name
                         THEN [key |-> e.name, value |-> e] ELSE d[i]]
                 ELSE Append(d, [key |-> e.name, value |-> e])
       IN DictInsertAll(d2, Tail(es))

NameToEntry(es) == DictInsertAll(<<>>, es)

\* name_to_entry.keys()
Keys(d) == [i \in 1..Len(d) |-> d[i].key]

\* name_to_entry[name]
Lookup(d, name) == (CHOOSE i \in 1..Len(d) : d[i].key = name)

\* refresh_labels that compares the row number with current_index
refresh_labels_row_number(ls, es, ci, ws) ==
  [i \in 1..Len(ls) |->
     LET entry_index == ws + (i - 1)
     IN IF entry_index < Len(es)
        THEN [text |-> PyIndex(es, entry_index).name, visible |-> TRUE,
              selected |-> (i - 1 = ci)]
        ELSE [text |-> ls[i].text, visible |-> FALSE, selected |-> FALSE]]

\* refresh_labels: the labels after one refresh
refresh_labels(ls, es, ci, ws) ==
  [i \in 1..Len(ls) |->
     LET entry_index == ws + (i - 1)
     IN IF entry_index < Len(es)
        THEN [text |-> PyIndex(es, entry_index).name, visible |-> TRUE,
              selected |-> (entry_index = ci)]
        ELSE [text |-> ls[i].text, visible |-> FALSE, selected |-> FALSE]]

\* setup_labels: VISIBLE_ENTRIES labels, refreshed after each one is added
RECURSIVE setup_labels(_, _, _, _, _)
setup_labels(k, ls, es, ci, ws) ==
  IF k = 0 THEN ls
  ELSE setup_labels(k - 1,
         refresh_labels(Append(ls, [text |-> <<>>, visible |-> TRUE,
                                    selected |-> FALSE]), es, ci, ws),
         es, ci, ws)

\* move_selection that scrolls down one row too far
move_selection_overscroll(w, delta, visible_entries) ==
  LET new_index == Max2(0, Min2(w.current_index + delta, Len(w.entries) - 1))
      new_start ==
        IF new_index < w.window_start THEN new_index
        ELSE IF new_index >= w.window_start + visible_entries
        THEN new_index - visible_entries + 2
        ELSE w.window_start
  IN IF new_index = w.current_index THEN w
     ELSE [w EXCEPT !.current_index = new_index,
                    !.window_start = new_start,
                    !.labels = refresh_labels(w.labels, w.entries,
                                              new_index, new_start)]

\* move_selection without the early return on an unchanged index
move_selection_no_return(w, delta, visible_entries) ==
  LET new_index == Max2(0, Min2(w.current_index + delta, Len(w.entries) - 1))
      new_start ==
        IF new_index < w.window_start THEN new_index
        ELSE IF new_index >= w.window_start + visible_entries
        THEN new_index - visible_entries + 1
        ELSE w.window_start
  IN [w EXCEPT !.current_index = new_index,
               !.window_start = new_start,
               !.labels = refresh_labels(w.labels, w.entries,
                                         new_index, new_start)]

\* move_selection(delta) on the widget fields w
move_selection(w, delta, visible_entries) ==
  LET new_index == Max2(0, Min2(w.current_index + delta, Len(w.entries) - 1))
      new_start ==
        IF new_index < w.window_start THEN new_index
        ELSE IF new_index >= w.window_start + visible_entries
        THEN new_index - visible_entries + 1
        ELSE w.window_start
  IN IF new_index = w.current_index THEN w
     ELSE [w EXCEPT !.current_index = new_index,
                    !.window_start = new_start,
                    !.labels = refresh_labels(w.labels, w.entries,
                                              new_index, new_start)]

\* the prefix matches of fuzzy_finding
prefix_matches(d, txt) ==
  SelectSeq(Keys(d), LAMBDA name : StartsWith(Lower(name), Lower(txt)))

\* the names fuzzy_finding hands to the fuzzy stage
rest(d, txt) ==
  SelectSeq(Keys(d), LAMBDA name : ~InList(name, prefix_matches(d, txt)))

\* final with the fuzzy matches put before the prefix matches
final_fuzzy_first(d, txt, fuzzy_limit) ==
  LET fuzzy_matches == Extract(txt, rest(d, txt), fuzzy_limit)
  IN [i \in 1..Len(fuzzy_matches) |-> fuzzy_matches[i][1]]
       \o prefix_matches(d, txt)

\* final: prefix matches followed by the names of the fuzzy matches
final(d, txt, fuzzy_limit) ==
  LET fuzzy_matches == Extract(txt, rest(d, txt), fuzzy_limit)
  IN prefix_matches(d, txt)
       \o [i \in 1..Len(fuzzy_matches) |-> fuzzy_matches[i][1]]

\* fuzzy_finding that filters the names currently listed, not the catalog's
fuzzy_finding_current(w, d, txt, cfg) ==
  LET cur == NameToEntry(w.entries)
      names == final(cur, txt, cfg.FUZZY_LIMIT)
      w2 == [w EXCEPT !.current_index = -1,
                      !.entries = [i \in 1..Len(names) |->
                                     cur[Lookup(cur, names[i])].value]]
  IN move_selection(w2, cfg.ENTRIES_DELTA, cfg.ENTRIES_VISIBLE_ENTRIES)

\* fuzzy_finding(text) on the widget fields w
fuzzy_finding(w, d, txt, cfg) ==
  LET names == final(d, txt, cfg.FUZZY_LIMIT)
      w2 == [w EXCEPT !.current_index = -1,
                      !.entries = [i \in 1..Len(names) |->
                                     d[Lookup(d, names[i])].value]]
  IN move_selection(w2, cfg.ENTRIES_DELTA, cfg.ENTRIES_VISIBLE_ENTRIES)

\* ------------------------------------------------------------------------
\* Inputs: the parsed entries file, the settings and the typed queries
\* ------------------------------------------------------------------------
Echo == <<"e", " ", "{name}">>

Open == <<"o", " ", "{name}">>

StrName(n) == [kind |-> "str", str |-> n, list |-> <<>>]

ListName(l) == [kind |-> "list", str |-> <<>>, list |-> l]

IntName == [kind |-> "int", str |-> <<>>, list |-> <<>>]

Decl(name, is_command, command, stdout) ==
  [name |-> name, name_is_command |-> is_command, command |-> command,
   stdout |-> stdout]

Field(name, command, display_text) ==
  [present |-> TRUE, name |-> name, command |-> command,
   display_text |-> display_text]

NoField == [present |-> FALSE, name |-> "", command |-> "", display_text |-> ""]

FiveNames == <<<<"c">>, <<"d">>, <<"e">>, <<"f">>, <<"g">>>>

GroupPool ==
  { [name |-> "apps", description |-> "",
     entry |-> [is_list |-> TRUE,
                items |-> <<Decl(ListName(<<<<"a", "l">>, <<"A", "b">>>>),
                                 FALSE, Echo, <<>>),
                            Decl(StrName(<<"l", "s">>), TRUE, Open,
                                 <<" ", "b", "\n", "b", "A", "\n", "a", "l",
                                   "\n">>)>>],
     input_field |-> Field("search", "BUILD_IN_fuzzy", "Search")],
    [name |-> "long", description |-> "",
     entry |-> [is_list |-> FALSE,
                items |-> <<Decl(ListName(FiveNames), FALSE, Echo, <<>>)>>],
     input_field |-> Field("run", "shell", "Run")],
    [name |-> "bad", description |-> "",
     entry |-> [is_list |-> TRUE,
                items |-> <<Decl(StrName(<<"b">>), FALSE, Echo, <<>>),
                            Decl(IntName, FALSE, Echo, <<>>)>>],
     input_field |-> Field("search", "BUILD_IN_fuzzy", "Search")],
    [name |-> "bare", description |-> "",
     entry |-> [is_list |-> TRUE,
                items |-> <<Decl(StrName(<<"b">>), FALSE, Open, <<>>)>>],
     input_field |-> NoField] }

\* parsed_data.get("group", []): up to MaxGroups groups
ParsedData ==
  UNION {[1..n -> GroupPool] : n \in 0..MaxGroups}

\* start_index of the default settings
DefaultStartIndex == 0

Configs ==
  [ENTRIES_VISIBLE_ENTRIES : 1..MaxVisible,
   ENTRIES_START_INDEX : {DefaultStartIndex},
   ENTRIES_WINDOW_START : 0..MaxWindowStart,
   ENTRIES_DELTA : 1..MaxDelta,
   FUZZY_LIMIT : 0..MaxFuzzyLimit]

Queries == {<<>>, <<"A">>, <<"x">>}

ExitCodes == {0, 1}

\* ------------------------------------------------------------------------
\* State machine
\* ------------------------------------------------------------------------
Widget == [entries |-> entries, current_index |-> current_index,
           window_start |-> window_start, labels |-> labels]

\* number of consecutive Down presses since current_index = window_start = 0
\* (-1: the run was interrupted)
DownsAfter(is_down, ci, ws) ==
  IF is_down /\ downs >= 0 THEN Min2(downs + 1, MaxDowns + 1)
  ELSE IF ci = 0 /\ ws = 0 THEN 0 ELSE -1

Init ==
  /\ pc = "start"
  /\ parsed_data \in ParsedData
  /\ CONFIG \in Configs
  /\ ENTRIES = <<>>
  /\ INPUT_FIELD = None
  /\ entries = <<>>
  /\ name_to_entry = <<>>
  /\ current_index = 0
  /\ window_start = 0
  /\ labels = <<>>
  /\ text = <<>>
  /\ launched = <<>>
  /\ err = "none"
  /\ last_op = "none"
  /\ downs = -1

\* cli.main: load the catalog, then construct the widget
Main ==
  /\ pc = "start"
  /\ LET r == create_all_entries(parsed_data)
         ci == CONFIG.ENTRIES_START_INDEX
         ws == CONFIG.ENTRIES_WINDOW_START
     IN IF r.exc # "none"
        THEN /\ pc' = "failed"
             /\ err' = r.exc
             /\ UNCHANGED <<ENTRIES, INPUT_FIELD, entries, name_to_entry,
                            current_index, window_start, labels, downs>>
        ELSE IF r.input_field.is_none
        THEN \* setup_text_input reads input_field.display_text of None
             /\ pc' = "failed"
             /\ err' = "AttributeError"
             /\ ENTRIES' = r.all_entries
             /\ UNCHANGED <<INPUT_FIELD, entries, name_to_entry,
                            current_index, window_start, labels, downs>>
        ELSE /\ pc' = "running"
             /\ err' = "none"
             /\ ENTRIES' = r.all_entries
             /\ INPUT_FIELD' = r.input_field
             /\ entries' = r.all_entries
             /\ name_to_entry' = NameToEntry(r.all_entries)
             /\ current_index' = ci
             /\ window_start' = ws
             /\ labels' = setup_labels(CONFIG.ENTRIES_VISIBLE_ENTRIES, <<>>,
                                       r.all_entries, ci, ws)
             /\ downs' = DownsAfter(FALSE, ci, ws)
  /\ last_op' = "main"
  /\ UNCHANGED <<parsed_data, CONFIG, text, launched>>

\* the widget fields become w
SetWidget(w) ==
  /\ entries' = w.entries
  /\ current_index' = w.current_index
  /\ window_start' = w.window_start
  /\ labels' = w.labels

\* on_text_changed(text): the line edit's text changed to q
TextChanged(q) ==
  /\ pc = "running"
  /\ q # text
  /\ text' = q
  /\ IF INPUT_FIELD.command = "BUILD_IN_fuzzy"
     THEN LET w == fuzzy_finding(Widget, name_to_entry, q, CONFIG)
          IN /\ SetWidget(w)
             /\ downs' = DownsAfter(FALSE, w.current_index, w.window_start)
             /\ last_op' = "filter"
     ELSE /\ UNCHANGED <<entries, current_index, window_start, labels>>
          /\ downs' = DownsAfter(FALSE, current_index, window_start)
          /\ last_op' = "fixit"
  /\ err' = "none"
  /\ UNCHANGED <<pc, parsed_data, CONFIG, ENTRIES, INPUT_FIELD,
                 name_to_entry, launched>>

\* eventFilter, Key_Down
KeyDown ==
  /\ pc = "running"
  /\ LET w == move_selection(Widget, CONFIG.ENTRIES_DELTA,
                             CONFIG.ENTRIES_VISIBLE_ENTRIES)
     IN /\ SetWidget(w)
        /\ downs' = DownsAfter(CONFIG.ENTRIES_DELTA = 1, w.current_index,
                               w.window_start)
  /\ last_op' = "move"
  /\ err' = "none"
  /\ UNCHANGED <<pc, parsed_data, CONFIG, ENTRIES, INPUT_FIELD,
                 name_to_entry, text, launched>>

\* eventFilter, Key_Up
KeyUp ==
  /\ pc = "running"
  /\ LET w == move_selection(Widget, -CONFIG.ENTRIES_DELTA,
                             CONFIG.ENTRIES_VISIBLE_ENTRIES)
     IN /\ SetWidget(w)
        /\ downs' = DownsAfter(FALSE, w.current_index, w.window_start)
  /\ last_op' = "move"
  /\ err' = "none"
  /\ UNCHANGED <<pc, parsed_data, CONFIG, ENTRIES, INPUT_FIELD,
                 name_to_entry, text, launched>>

\* eventFilter, Key_Return / Key_Enter: execute_command() then close();
\* entries[current_index] raises IndexError first when out of range.  The
\* launched command ends with any return code; the handler ignores it
KeyEnter(returncode) ==
  /\ pc = "running"
  /\ IF PyIndexOK(entries, current_index)
     THEN /\ launched' = Append(launched,
                           [command |-> PyIndex(entries, current_index).command,
                            returncode |-> returncode])
          /\ pc' = "closed"
          /\ err' = "none"
     ELSE /\ err' = "IndexError"
          /\ UNCHANGED <<launched, pc>>
  /\ last_op' = "enter"
  /\ downs' = DownsAfter(FALSE, current_index, window_start)
  /\ UNCHANGED <<parsed_data, CONFIG, ENTRIES, INPUT_FIELD, entries,
                 name_to_entry, current_index, window_start, labels, text>>

\* eventFilter, Key_Escape: close()
KeyEscape ==
  /\ pc = "running"
  /\ pc' = "closed"
  /\ last_op' = "escape"
  /\ downs' = DownsAfter(FALSE, current_index, window_start)
  /\ err' = "none"
  /\ UNCHANGED <<parsed_data, CONFIG, ENTRIES, INPUT_FIELD, entries,
                 name_to_entry, current_index, window_start, labels, text,
                 launched>>

Next ==
  \/ Main
  \/ \E q \in Queries : TextChanged(q)
  \/ KeyDown
  \/ KeyUp
  \/ \E returncode \in ExitCodes : KeyEnter(returncode)
  \/ KeyEscape

Spec == Init /\ [][Next]_vars

\* ------------------------------------------------------------------------
\* Properties
\* ------------------------------------------------------------------------
VISIBLE_COUNT == CONFIG.ENTRIES_VISIBLE_ENTRIES

Constructed == pc \in {"running", "closed"}

\* the names of the current entry list
EntryNames == [i \in 1..Len(entries) |-> entries[i].name]

\* the names of the catalog handed to the widget
CatalogNames == [i \in 1..Len(ENTRIES) |-> ENTRIES[i].name]

\* name starts with the typed text, ignoring case
IsPrefixMatch(name) == StartsWith(Lower(name), Lower(text))

\* position of the first catalog entry called name
FirstPos(name) ==
  CHOOSE i \in 1..Len(ENTRIES) :
    /\ ENTRIES[i].name = name
    /\ \A j \in 1..(i - 1) : ENTRIES[j].name # name

\* number of names of the current entry list that are not prefix matches
NonPrefixCount ==
  Cardinality({i \in 1..Len(entries) : ~IsPrefixMatch(entries[i].name)})

\* C1: after every move_selection call on a non-empty entry list,
\* window_start <= current_index < window_start + VISIBLE_COUNT.
C1_SelectionInsideWindow ==
  (pc = "running" /\ last_op = "move" /\ Len(entries) > 0)
    => /\ window_start <= current_index
       /\ current_index < window_start + VISIBLE_COUNT

\* C2: whenever move_selection assigns current_index (a key press that
\* moves the selection, or the call that ends a filter pass), the new value
\* lies in 0 .. len(entries)-1.
C2_IndexInRange ==
  [][(\/ last_op' = "filter"
      \/ last_op' = "move" /\ current_index' # current_index)
       => /\ 0 <= current_index'
          /\ current_index' <= Len(entries') - 1]_vars

\* C3: after a filter pass every name that starts with the query (ignoring
\* case) comes before every name that does not, and the prefix-matching names
\* keep the order of their (first) occurrence in the catalog.
C3_PrefixMatchesFirst ==
  (Constructed /\ last_op = "filter")
    => \A i \in 1..Len(entries) : \A j \in 1..Len(entries) :
         i < j =>
           /\ ~(~IsPrefixMatch(EntryNames[i]) /\ IsPrefixMatch(EntryNames[j]))
           /\ (IsPrefixMatch(EntryNames[i]) /\ IsPrefixMatch(EntryNames[j]))
                => /\ InList(EntryNames[i], CatalogNames)
                   /\ InList(EntryNames[j], CatalogNames)
                   /\ FirstPos(EntryNames[i]) < FirstPos(EntryNames[j])

\* two prefix matches followed by a fuzzy match
C3_Witness ==
  /\ pc = "running"
  /\ last_op = "filter"
  /\ Len(text) > 0
  /\ \E i \in 1..Len(entries) : \E j \in 1..Len(entries) :
       \E k \in 1..Len(entries) :
         /\ i < j /\ j < k
         /\ IsPrefixMatch(EntryNames[i])
         /\ IsPrefixMatch(EntryNames[j])
         /\ ~IsPrefixMatch(EntryNames[k])

\* C4: filter("") leaves an entry list equal to the whole catalog in its
\* original order, also when two entries share a name.
C4_EmptyQueryIsCatalog ==
  (Constructed /\ last_op = "filter" /\ text = <<>>) => entries = ENTRIES

C6_FilterSelectsFirstRow ==
  (Constructed /\ last_op = "filter") => current_index = 0

\* the step ran move_selection past its early return: a key press that moved
\* the selection, or the call at the end of a filter pass
Moved ==
  \/ last_op' = "filter"
  \/ last_op' = "move" /\ current_index' # current_index

C8_EnterRunsAndCloses ==
  (last_op = "enter")
    => /\ pc = "closed"
       /\ err = "none"
       /\ Len(launched) = 1
       /\ 0 <= current_index
       /\ current_index < Len(entries)
       /\ launched[1].command = entries[current_index + 1].command

\* the entries every group of the file declares, in declaration order
RECURSIVE DeclaredEntries(_)
DeclaredEntries(groups) ==
  IF groups = <<>> THEN <<>>
  ELSE LET g == Head(groups)
       IN GroupEntries(g.name, g.entry.items, <<>>).entries
            \o DeclaredEntries(Tail(groups))

\* every entry declaration of the file is well-formed
WellFormed(groups) ==
  \A i \in 1..Len(groups) :
    GroupEntries(groups[i].name, groups[i].entry.items, <<>>).exc = "none"

\* index of the last group that declares an input field
LastDeclaring(groups) ==
  CHOOSE i \in 1..Len(groups) :
    /\ groups[i].input_field.present
    /\ \A j \in (i + 1)..Len(groups) : ~groups[j].input_field.present

\* C9: catalog construction over groups that each declare at most one input
\* field returns the input field of the last group that declares one, and the
\* entries of all groups concatenated in declaration order.
C9_LastInputFieldWins ==
  (/\ last_op = "main"
   /\ WellFormed(parsed_data)
   /\ \E i \in 1..Len(parsed_data) : parsed_data[i].input_field.present)
    => LET g == parsed_data[LastDeclaring(parsed_data)]
       IN /\ pc = "running"
          /\ ~INPUT_FIELD.is_none
          /\ INPUT_FIELD.name = g.input_field.name
          /\ INPUT_FIELD.command = g.input_field.command
          /\ INPUT_FIELD.display_text = g.input_field.display_text
          /\ INPUT_FIELD.group = g.name
          /\ ENTRIES = DeclaredEntries(parsed_data)

\* C10: row i shows entry window_start + i and is marked selected exactly
\* when that index is current_index; rows past the end of the entry list are
\* hidden and not selected.
C10_VisibleRows ==
  Constructed
    => /\ Len(labels) = VISIBLE_COUNT
       /\ \A i \in 0..(VISIBLE_COUNT - 1) :
            IF window_start + i < Len(entries)
            THEN /\ labels[i + 1].visible
                 /\ labels[i + 1].text = entries[window_start + i + 1].name
                 /\ labels[i + 1].selected <=> (window_start + i = current_index)
            ELSE /\ ~labels[i + 1].visible
                 /\ ~labels[i + 1].selected

\* a scrolled window after a move: the selected row is not the first one and
\* a row past the end of the list is hidden
C10_Witness ==
  /\ pc = "running"
  /\ last_op = "move"
  /\ window_start > 0
  /\ \E i \in 2..Len(labels) : labels[i].visible /\ labels[i].selected
  /\ \E i \in 1..Len(labels) : ~labels[i].visible

\* the clamped target index of move_selection(delta)
Target(delta) == Max2(0, Min2(current_index + delta, Len(entries) - 1))

FreshWidget ==
  [entries |-> ENTRIES,
   current_index |-> CONFIG.ENTRIES_START_INDEX,
   window_start |-> CONFIG.ENTRIES_WINDOW_START,
   labels |-> setup_labels(CONFIG.ENTRIES_VISIBLE_ENTRIES, <<>>, ENTRIES,
                           CONFIG.ENTRIES_START_INDEX,
                           CONFIG.ENTRIES_WINDOW_START)]

\* C12: the entry list a filter pass leaves is the one the same query gives
\* on the freshly constructed widget, whatever filters and moves came before;
\* and filtering once more with the same query changes none of entries,
\* current_index and window_start.
C12_FilterDependsOnCatalogAndQuery ==
  (Constructed /\ last_op = "filter")
    => LET fresh == fuzzy_finding(FreshWidget, NameToEntry(ENTRIES), text,
                                  CONFIG)
           again == fuzzy_finding(Widget, name_to_entry, text, CONFIG)
       IN /\ entries = fresh.entries
          /\ again.entries = entries
          /\ again.current_index = current_index
          /\ again.window_start = window_start

\* the query was widened back to the empty text after a narrower one and the
\* whole set of names is listed again
C12_Witness ==
  /\ pc = "running"
  /\ last_op = "filter"
  /\ text = <<>>
  /\ Len(entries) >= 4
  /\ Len(entries) = Len(name_to_entry)
====
